---- MODULE Spec2Model ----
(***************************************************************************)
(* PCI quality-control script (src/main.py): the inspection table is       *)
(* indexed by "Street_ID - Section_ID", every segment of the shapefile is  *)
(* compared with the records of its key, the flagged segments are copied   *)
(* to the below / above / combined shapefiles and a midpoint shapefile is  *)
(* derived from each.                                                      *)
(*                                                                         *)
(* A cell value of the table is a record [kind, val]: kind "null" is a     *)
(* NULL cell, "num" a number (val), "text" a string (val is its sequence   *)
(* of characters for names; for a PCI cell text is a non-numeric value).   *)
(*                                                                         *)
(* Spec runs on any small table and shapefile, SpecSection on any small    *)
(* table of one section's inspections. SpecStore runs on a store           *)
(* whose reads, output operations and midpoint methods may fail, SpecInput *)
(* starts at the two typed threshold lines, SpecKeys runs on identifiers   *)
(* with blank padding and SpecFields on a table with additional fields,    *)
(* some of which truncate to the same 10-character shapefile name.         *)
(* SpecJoin runs on several inspections of one section, each with its own  *)
(* notes, and SpecAddField follows calls of add_field_if_not_exists on a   *)
(* shapefile.                                                              *)
(***************************************************************************)
EXTENDS Integers, Sequences, FiniteSets, TLC

\* ---------------------------------------------------------------- bounds
MaxRows == 2
MaxSegs == 2
MaxFields == 2

\* ------------------------------------------------------------ cell values
None == [kind |-> "null", val |-> 0]
Num(n) == [kind |-> "num", val |-> n]
BadText == [kind |-> "text", val |-> 0]

NoName == [kind |-> "null", val |-> << >>]
Name(chars) == [kind |-> "text", val |-> chars]
ShortName == Name(<<"M", "a", "i", "n", " ", "S", "t">>)
LongName == Name(<<"W", "i", "l", "d", "o", "m", "a", "r", " ", "T", "r", "l">>)

IsNone(v) == v.kind = "null"
IsNumber(v) == v.kind = "num"

\* ----------------------------------------------------------------- inputs
\* <<Prev_Insp_PCI, Last_Insp_PCI, Street_Name>> of the rows the table may hold
RowKinds ==
    { <<Num(80), Num(65), ShortName>>,
      <<Num(70), Num(68), ShortName>>,
      <<Num(70), Num(80), LongName>>,
      <<None, Num(65), ShortName>>,
      <<Num(80), None, ShortName>>,
      <<BadText, Num(65), ShortName>>,
      <<Num(80), Num(65), NoName>> }

Id(s) == [kind |-> "text", val |-> s]
StreetIds == {Id("100")}
SectionIds == {Id("1"), Id("2")}

\* the StreetSec values of the shapefile
SegKeys == {"100 - 1", "100 - 2"}

\* <<lower_threshold, higher_threshold>>
ThresholdPairs == { <<-10, 10>>, <<5, -10>>, <<-2, -2>> }

TableRows ==
    { [Street_ID |-> s, Section_ID |-> c, Prev_Insp_PCI |-> k[1],
       Last_Insp_PCI |-> k[2], Street_Name |-> k[3]] :
        s \in StreetIds, c \in SectionIds, k \in RowKinds }

SeqsUpTo(S, n) == UNION { [1..m -> S] : m \in 0..n }

Partitions == {"below", "above", "combined"}

VARIABLES
    table,                   \* the inspection table, in cursor order
    segs,                    \* the StreetSec of the features, in cursor order
    fields,                  \* the table's fields beyond those the comparison reads
    extra,                   \* the cells of the table's rows under these fields
    lower_input,             \* the characters typed for the lower threshold
    higher_input,            \* the characters typed for the higher threshold
    lower_thresh,
    higher_thresh,
    pc,                      \* position of the run in analyze_pci_differences
    table_dict,
    si,                      \* index in segs of the segment being compared
    ri,                      \* index of the record being compared, 0: none
    all_results,
    lower_flagged,
    higher_flagged,
    lower_oids,
    higher_oids,
    all_flagged_oids,
    pci_diff_dict,
    street_section_mapping,
    outputs,                 \* the classified shapefiles: partition -> features
    midpoints,               \* the midpoint shapefiles: partition -> it exists
    mid_call,                \* the locals of the latest create_midpoint_shapefile
    attempted,               \* the output steps the run has reached
    reported,                \* the totals printed by the summary
    errors,                  \* the errors printed by the except clauses
    faults,                  \* the store operations that may fail in this run
    add_field,               \* the latest call of add_field_if_not_exists
    handles                  \* the layers and cursors of the session: it is held

vars == <<table, segs, fields, extra, lower_input, higher_input, lower_thresh, higher_thresh, pc, table_dict, si, ri,
          all_results, lower_flagged, higher_flagged, lower_oids, higher_oids,
          all_flagged_oids, pci_diff_dict, street_section_mapping, outputs,
          midpoints, mid_call, attempted, reported, errors, faults, add_field,
          handles>>

inputs == <<table, segs, fields, extra, lower_input, higher_input, lower_thresh,
            higher_thresh, faults, add_field>>
scan == <<all_results, lower_flagged, higher_flagged, lower_oids, higher_oids,
          all_flagged_oids, pci_diff_dict>>

\* ---------------------------------------------------------- small helpers
Range(s) == { s[i] : i \in DOMAIN s }

\* an f-string's formatting of a key component: str(None) is "None"
Str(v) == IF IsNone(v) THEN "None" ELSE v.val

\* f"{street_id} - {section_id}"
MakeKey(street_id, section_id) == Str(street_id) \o " - " \o Str(section_id)

\* d[k] = v of a Python dict
Put(d, k, v) == [x \in DOMAIN d \cup {k} |-> IF x = k THEN v ELSE d[x]]

EmptyDict == [x \in {} |-> 0]

\* the FID the shapefile gives to its i-th feature
FidOf(i) == i - 1

\* street_name[:10] if len(street_name) > 10 else street_name
Truncate10(chars) == IF Len(chars) > 10 THEN SubSeq(chars, 1, 10) ELSE chars

\* ----------------------------------------------------------- the thresholds
Digits == <<"0", "1", "2", "3", "4", "5", "6", "7", "8", "9">>
IsDigit(c) == c \in Range(Digits)
DigitValue(c) == (CHOOSE d \in DOMAIN Digits : Digits[d] = c) - 1

\* the number written by a sequence of digits
RECURSIVE DigitsValue(_)
DigitsValue(chars) ==
    IF chars = << >> THEN 0
    ELSE 10 * DigitsValue(SubSeq(chars, 1, Len(chars) - 1))
            + DigitValue(chars[Len(chars)])

IsSign(c) == c \in {"-", "+"}
Unsigned(chars) == IF chars # << >> /\ IsSign(chars[1]) THEN Tail(chars) ELSE chars
AllDigits(chars) == chars # << >> /\ \A i \in DOMAIN chars : IsDigit(chars[i])

\* lines 33-34: int(text) of a typed line: an optional sign and digits give the
\* integer, anything else raises ValueError (ok is FALSE)
ParseInt(chars) ==
    LET body == Unsigned(chars)
    IN  IF AllDigits(body)
        THEN [ok |-> TRUE,
              val |-> IF chars[1] = "-" THEN 0 - DigitsValue(body) ELSE DigitsValue(body)]
        ELSE [ok |-> FALSE, val |-> 0]

\* the digits an operator types for a natural number
RECURSIVE DigitsOf(_)
DigitsOf(n) ==
    IF n < 10 THEN <<Digits[n + 1]>>
    ELSE Append(DigitsOf(n \div 10), Digits[(n % 10) + 1])

\* the line an operator types for an integer
DecimalText(n) == IF n < 0 THEN <<"-">> \o DigitsOf(0 - n) ELSE DigitsOf(n)

\* lines 36-37
DefaultLower == -10
DefaultHigher == 10

\* ---------------------------------------------------------------- the index
\* an index that keeps only the latest row of a key
RECURSIVE BuildTableDictLastWins(_, _, _)
BuildTableDictLastWins(rows, i, d) ==
    IF i > Len(rows) THEN d
    ELSE LET r == rows[i]
             key == MakeKey(r.Street_ID, r.Section_ID)
             rec == [last_pci |-> r.Last_Insp_PCI, prev_pci |-> r.Prev_Insp_PCI,
                     tbl_oid |-> i, street_name |-> r.Street_Name]
         IN  BuildTableDictLastWins(rows, i + 1, Put(d, key, <<rec>>))

\* table_dict.setdefault(key, []).append((last_pci, prev_pci, tbl_oid, street_name))
RECURSIVE BuildTableDict(_, _, _)
BuildTableDict(rows, i, d) ==
    IF i > Len(rows) THEN d
    ELSE LET r == rows[i]
             key == MakeKey(r.Street_ID, r.Section_ID)
             rec == [last_pci |-> r.Last_Insp_PCI, prev_pci |-> r.Prev_Insp_PCI,
                     tbl_oid |-> i, street_name |-> r.Street_Name]
             old == IF key \in DOMAIN d THEN d[key] ELSE << >>
         IN  BuildTableDict(rows, i + 1, Put(d, key, Append(old, rec)))

\* no call of create_midpoint_shapefile yet
NoCall == [input_fc |-> "", methods |-> << >>, results |-> << >>, success |-> FALSE]

\* no call of add_field_if_not_exists is followed
NoAddField == [fc |-> [fields |-> << >>, dataType |-> ""], field_name |-> << >>,
               before |-> << >>, returned |-> FALSE, add_error |-> FALSE,
               printed |-> {}]

\* a table that has no field beyond those the comparison reads
NoFields ==
    /\ fields = << >>
    /\ extra = [i \in DOMAIN table |-> EmptyDict]

\* the state of analyze_pci_differences at line 637, before the table is read
Start ==
    /\ table_dict = EmptyDict
    /\ si = 0
    /\ ri = 0
    /\ all_results = << >>
    /\ lower_flagged = << >>
    /\ higher_flagged = << >>
    /\ lower_oids = << >>
    /\ higher_oids = << >>
    /\ all_flagged_oids = << >>
    /\ pci_diff_dict = EmptyDict
    /\ street_section_mapping = EmptyDict
    /\ outputs = [p \in Partitions |-> << >>]
    /\ midpoints = [p \in Partitions |-> FALSE]
    /\ mid_call = NoCall
    /\ attempted = {}
    /\ reported = << >>
    /\ errors = {}
    /\ handles = EmptyDict

\* any table and shapefile; the store may fail while a classified output is made
Init ==
    /\ table \in SeqsUpTo(TableRows, MaxRows)
    /\ segs \in SeqsUpTo(SegKeys, MaxSegs)
    /\ \E t \in ThresholdPairs :
          /\ lower_input = DecimalText(t[1]) /\ higher_input = DecimalText(t[2])
          /\ lower_thresh = t[1] /\ higher_thresh = t[2]
    /\ faults = {"output"}
    /\ pc = "index"
    /\ add_field = NoAddField
    /\ NoFields
    /\ Start

\* what a search cursor does when it is opened or asked for a row
ReadOutcomes == IF "read" \in faults THEN {"ok", "raise"} ELSE {"ok"}

\* a read error caught where the join map's read errors are caught: the run
\* goes on to the outputs
AfterReadErrorGoOn == "below"

\* line 986: the except clause of analyze_pci_differences ends the run
AfterReadError == "failed"

\* lines 641-649: one pass over the table; a table that cannot be read raises
\* at line 645
BuildIndex ==
    /\ pc = "index"
    /\ \E outcome \in ReadOutcomes :
          IF outcome = "raise"
          THEN /\ pc' = AfterReadError
               /\ errors' = errors \cup {"processing", "read table"}
               /\ UNCHANGED <<table_dict, si, ri>>
          ELSE /\ table_dict' = BuildTableDict(table, 1, EmptyDict)
               /\ pc' = "scan"
               /\ si' = 1
               /\ ri' = 0
               /\ UNCHANGED errors
    /\ UNCHANGED <<inputs, handles, scan, street_section_mapping, outputs, midpoints, mid_call,
                   attempted, reported>>

\* a lookup that falls back on some record when the key is not in the index
RecordsOfAnyKey(d, streetsec) ==
    IF streetsec \in DOMAIN d THEN d[streetsec]
    ELSE IF DOMAIN d # {} THEN d[CHOOSE k \in DOMAIN d : TRUE]
    ELSE << >>

\* line 666: the records of the key, none when the key is not in the index
RecordsOf(d, streetsec) == IF streetsec \in DOMAIN d THEN d[streetsec] ELSE << >>

\* a test that takes every non-number for a missing value
BothNumbers(last_pci, prev_pci) == IsNumber(last_pci) /\ IsNumber(prev_pci)

\* line 669
BothPresent(last_pci, prev_pci) == ~IsNone(last_pci) /\ ~IsNone(prev_pci)

\* the subtraction in the other order
PciDiffPrevMinusLast(last_pci, prev_pci) == prev_pci - last_pci

\* line 670
PciDiff(last_pci, prev_pci) == last_pci - prev_pci

\* the higher test made first
ClassifyHigherFirst(pci_diff, lower, higher) ==
    IF pci_diff >= higher THEN "ABOVE"
    ELSE IF pci_diff <= lower THEN "BELOW"
    ELSE "OK"

\* the higher test without the tie
ClassifyStrictHigher(pci_diff, lower, higher) ==
    IF pci_diff <= lower THEN "BELOW"
    ELSE IF pci_diff > higher THEN "ABOVE"
    ELSE "OK"

\* lines 677-688
Classify(pci_diff, lower, higher) ==
    IF pci_diff <= lower THEN "BELOW"
    ELSE IF pci_diff >= higher THEN "ABOVE"
    ELSE "OK"

\* lines 670, 673: the subtraction of a non-number and len(None) raise TypeError
Raises(rec) ==
    /\ BothPresent(rec.last_pci, rec.prev_pci)
    /\ \/ ~IsNumber(rec.last_pci)
       \/ ~IsNumber(rec.prev_pci)
       \/ IsNone(rec.street_name)

\* lines 693-704
ResultOf(shp_oid, streetsec, rec, diff_text, flag) ==
    [Shapefile_OID |-> shp_oid, Table_OID |-> rec.tbl_oid, StreetSec |-> streetsec,
     Last_Insp_PCI |-> rec.last_pci, Prev_Insp_PCI |-> rec.prev_pci,
     PCI_Difference |-> diff_text, Flag |-> flag]

\* lines 661-666: the cursor yields the next feature; a shapefile that cannot
\* be read raises at line 661 or 662
NextSegment ==
    /\ pc = "scan"
    /\ ri = 0
    /\ \E outcome \in ReadOutcomes :
          IF outcome = "raise"
          THEN /\ pc' = AfterReadError
               /\ errors' = errors \cup {"processing", "read shapefile"}
               /\ UNCHANGED <<si, ri, street_section_mapping>>
          ELSE /\ si <= Len(segs)
               /\ street_section_mapping' =
                     Put(street_section_mapping, FidOf(si), segs[si])
               /\ IF RecordsOf(table_dict, segs[si]) # << >>
                  THEN ri' = 1 /\ si' = si
                  ELSE ri' = 0 /\ si' = si + 1
               /\ UNCHANGED <<pc, errors>>
    /\ UNCHANGED <<inputs, handles, table_dict, scan, outputs, midpoints, mid_call, attempted,
                   reported>>

\* lines 667-704: one record of the current feature's key
ProcessRecord ==
    /\ pc = "scan"
    /\ ri >= 1
    /\ LET streetsec == segs[si]
           shp_oid == FidOf(si)
           recs == RecordsOf(table_dict, streetsec)
           rec == recs[ri]
       IN  IF Raises(rec)
           THEN \* caught by the except clause of line 986
                /\ pc' = "failed"
                /\ errors' = errors \cup {"processing"}
                /\ UNCHANGED <<si, ri, scan>>
           ELSE /\ IF BothPresent(rec.last_pci, rec.prev_pci)
                   THEN LET pci_diff == PciDiff(rec.last_pci.val, rec.prev_pci.val)
                            flag == Classify(pci_diff, lower_thresh, higher_thresh)
                            short == Truncate10(rec.street_name.val)
                            entry == <<streetsec, rec.street_name, pci_diff>>
                        IN  /\ pci_diff_dict' =
                                 Put(pci_diff_dict, shp_oid, <<Num(pci_diff), Name(short)>>)
                            /\ lower_flagged' = IF flag = "BELOW"
                                 THEN Append(lower_flagged, entry) ELSE lower_flagged
                            /\ lower_oids' = IF flag = "BELOW"
                                 THEN Append(lower_oids, shp_oid) ELSE lower_oids
                            /\ higher_flagged' = IF flag = "ABOVE"
                                 THEN Append(higher_flagged, entry) ELSE higher_flagged
                            /\ higher_oids' = IF flag = "ABOVE"
                                 THEN Append(higher_oids, shp_oid) ELSE higher_oids
                            /\ all_flagged_oids' = IF flag \in {"BELOW", "ABOVE"}
                                 THEN Append(all_flagged_oids, shp_oid)
                                 ELSE all_flagged_oids
                            /\ all_results' = Append(all_results,
                                 ResultOf(shp_oid, streetsec, rec, Num(pci_diff), flag))
                   ELSE /\ all_results' = Append(all_results,
                             ResultOf(shp_oid, streetsec, rec, BadText, "MISSING"))
                        /\ UNCHANGED <<lower_flagged, higher_flagged, lower_oids,
                                       higher_oids, all_flagged_oids, pci_diff_dict>>
                /\ IF ri < Len(recs)
                   THEN ri' = ri + 1 /\ si' = si
                   ELSE ri' = 0 /\ si' = si + 1
                /\ UNCHANGED <<pc, errors>>
    /\ UNCHANGED <<inputs, handles, table_dict, street_section_mapping, outputs, midpoints, mid_call,
                   attempted, reported>>

\* lines 706-740: the cursor is exhausted, the findings and the summary are printed
PrintSummary ==
    /\ pc = "scan"
    /\ ri = 0
    /\ si > Len(segs)
    /\ reported' = <<Len(all_results), Len(lower_flagged), Len(higher_flagged)>>
    /\ pc' = "below"
    /\ UNCHANGED <<inputs, handles, table_dict, si, ri, scan, street_section_mapping, outputs,
                   midpoints, mid_call, attempted, errors>>

\* ------------------------------------------------------------ table fields
Lowers == <<"a", "b", "c", "d", "e", "f", "g", "h", "i", "j", "k", "l", "m",
           "n", "o", "p", "q", "r", "s", "t", "u", "v", "w", "x", "y", "z">>
Uppers == <<"A", "B", "C", "D", "E", "F", "G", "H", "I", "J", "K", "L", "M",
           "N", "O", "P", "Q", "R", "S", "T", "U", "V", "W", "X", "Y", "Z">>

\* str.upper() of a character and of a name
UpperChar(c) ==
    IF \E i \in DOMAIN Lowers : Lowers[i] = c
    THEN Uppers[CHOOSE i \in DOMAIN Lowers : Lowers[i] = c] ELSE c
Upper(chars) == [i \in DOMAIN chars |-> UpperChar(chars[i])]

\* line 94: the length a shapefile allows for a field name
FieldLimit == 10

\* chars[:n]
Slice(chars, n) == SubSeq(chars, 1, IF Len(chars) < n THEN Len(chars) ELSE n)

\* a mapping that keeps every name whole
create_field_mapping_unchanged(original_fields) ==
    [field \in Range(original_fields) |-> field]

\* lines 90-96: mapping[field] = field[:10]
create_field_mapping(original_fields) ==
    [field \in Range(original_fields) |-> Slice(field, FieldLimit)]

\* the additional fields a table may have, as ListFields reports them (name and
\* type); the last one differs from the output's PCIDiff by its case only
AllFields ==
    << [name |-> <<"I", "n", "s", "p", "e", "c", "t", "o", "r", "_", "N", "a", "m", "e">>, type |-> "String"],
       [name |-> <<"I", "n", "s", "p", "e", "c", "t", "o", "r", "_", "I", "D">>, type |-> "Integer"],
       [name |-> <<"I", "n", "s", "p", "e", "c", "t", "o", "r", "_">>, type |-> "String"],
       [name |-> <<"N", "o", "t", "e", "s">>, type |-> "String"],
       [name |-> <<"I", "n", "s", "p", "_", "D", "a", "t", "e">>, type |-> "Date"],
       [name |-> <<"P", "C", "I", "D", "I", "F", "F">>, type |-> "Integer"] >>

Names(fs) == [i \in DOMAIN fs |-> fs[i].name]

\* the sequences of at most n fields with different names
FieldLists(n) ==
    { fs \in SeqsUpTo(Range(AllFields), n) :
        \A i, j \in DOMAIN fs : fs[i].name = fs[j].name => i = j }

\* the cell of the table's i-th row under a field, when it is not NULL
CellOf(field, i) ==
    LET id == CHOOSE k \in DOMAIN AllFields : AllFields[k] = field
    IN  CASE field.type = "String" -> Name(<<Digits[id + 1], Digits[i + 1]>>)
          [] field.type = "Integer" -> Num(10 * id + i)
          [] OTHER -> [kind |-> "date", val |-> 10 * id + i]

\* the cells of the rows under the additional fields, NULL at the places of nulls
CellsOf(rows, fs, nulls) ==
    [i \in DOMAIN rows |->
        [name \in Range(Names(fs)) |->
            LET field == CHOOSE f \in Range(fs) : f.name = name
            IN  IF <<i, name>> \in nulls THEN None ELSE CellOf(field, i)]]

\* the fields of a copy of the shapefile and the fields of lines 416-419
OutputBaseFields ==
    << [name |-> <<"F", "I", "D">>, type |-> "OID"],
       [name |-> <<"S", "h", "a", "p", "e">>, type |-> "Geometry"],
       [name |-> <<"S", "t", "r", "e", "e", "t", "S", "e", "c">>, type |-> "String"],
       [name |-> <<"T", "h", "r", "e", "s", "h", "T", "y", "p", "e">>, type |-> "String"],
       [name |-> <<"T", "h", "r", "e", "s", "h", "V", "a", "l">>, type |-> "Integer"],
       [name |-> <<"P", "C", "I", "D", "i", "f", "f">>, type |-> "Integer"],
       [name |-> <<"Q", "C", "_", "S", "t", "r", "e", "e", "t">>, type |-> "String"] >>

\* a NULL cell written as it is, whatever the type of the field
NullDefaultKeepingNull(type) == None

\* what AddField leaves in the rows of a shapefile, and lines 608-613: the
\* value written for a NULL cell
NullDefault(type) ==
    CASE type \in {"Integer", "SmallInteger", "Double", "Float"} -> Num(0)
      [] type = "String" -> Name(<< >>)
      [] OTHER -> None

\* lines 430-466: the fields of the output after the table's fields were added;
\* a field is skipped when its name or its truncated name, in upper case, exists
RECURSIVE AddTableFields(_, _, _)
AddTableFields(out_fields, table_fields, i) ==
    IF i > Len(table_fields) THEN out_fields
    ELSE LET field_name == table_fields[i].name
             truncated_name == create_field_mapping(Names(table_fields))[field_name]
             existing == { Upper(out_fields[k].name) : k \in DOMAIN out_fields }
         IN  IF Upper(field_name) \in existing \/ Upper(truncated_name) \in existing
             THEN AddTableFields(out_fields, table_fields, i + 1)
             ELSE AddTableFields(
                     Append(out_fields,
                            [name |-> truncated_name, type |-> table_fields[i].type]),
                     table_fields, i + 1)

\* the fields added to an output, after its base fields
AddedFields(table_fields) ==
    LET all == AddTableFields(OutputBaseFields, table_fields, 1)
    IN  SubSeq(all, Len(OutputBaseFields) + 1, Len(all))

\* lines 473-498: table_records[key] = field_values, the latest row of a key
RECURSIVE BuildTableRecords(_, _, _, _)
BuildTableRecords(rows, cells, i, d) ==
    IF i > Len(rows) THEN d
    ELSE BuildTableRecords(rows, cells, i + 1,
            Put(d, MakeKey(rows[i].Street_ID, rows[i].Section_ID), cells[i]))

\* lines 559-566: the truncated names of the table's fields that the output
\* has, one entry for each field of the table
UpdateFields(out_fields, table_fields) ==
    LET mapping == create_field_mapping(Names(table_fields))
        truncated == [i \in DOMAIN table_fields |-> mapping[table_fields[i].name]]
    IN  SelectSeq(truncated, LAMBDA n : n \in Range(Names(out_fields)))

\* a search that keeps the latest field with the truncated name
OrigFieldLatest(table_fields, field_name) ==
    LET mapping == create_field_mapping(Names(table_fields))
        hits == { i \in DOMAIN table_fields : mapping[table_fields[i].name] = field_name }
    IN  table_fields[CHOOSE i \in hits : \A j \in hits : j <= i].name

\* lines 584-589: the first key of field_mapping whose truncated name is
\* field_name; the keys are in the order of the table's fields
OrigField(table_fields, field_name) ==
    LET mapping == create_field_mapping(Names(table_fields))
        hits == { i \in DOMAIN table_fields : mapping[table_fields[i].name] = field_name }
    IN  table_fields[CHOOSE i \in hits : \A j \in hits : i <= j].name

\* lines 595-615: the value written under an output field from the record
JoinedValue(record, orig_field, type) ==
    IF IsNone(record[orig_field]) THEN NullDefault(type) ELSE record[orig_field]

\* lines 408-466: the copy with the added fields, blank in every row
WithFields(rows, table_fields) ==
    LET added == AddedFields(table_fields)
        blank == [x \in DOMAIN added |->
                    [name |-> added[x].name, type |-> added[x].type,
                     value |-> NullDefault(added[x].type)]]
    IN  [n \in DOMAIN rows |-> [rows[n] EXCEPT !.attrs = blank]]

\* lines 556-617: the rows whose StreetSec is a key of table_records get the
\* record's values under the update fields (none of the names the model's
\* tables use is the name of a base field of the output)
JoinTable(rows, table_fields, table_records) ==
    [n \in DOMAIN rows |->
        LET attrs == rows[n].attrs
            update_fields == UpdateFields(OutputBaseFields \o attrs, table_fields)
            record == table_records[rows[n].StreetSec]
        IN  IF rows[n].StreetSec \in DOMAIN table_records
            THEN [rows[n] EXCEPT !.attrs =
                    [x \in DOMAIN attrs |->
                        IF attrs[x].name \in Range(update_fields)
                        THEN [attrs[x] EXCEPT !.value =
                                JoinedValue(record,
                                            OrigField(table_fields, attrs[x].name),
                                            attrs[x].type)]
                        ELSE attrs[x]]]
            ELSE rows[n]]
\* ------------------------------------------------- add_field_if_not_exists
\* line 50: the names of the feature class's fields, in upper case
get_existing_fields(fc) == [i \in DOMAIN fc.fields |-> Upper(fc.fields[i])]

\* the function with a test that tells names by their case
add_field_if_not_exists_by_case(fc, field_name, created) ==
    LET shape == fc.dataType = "ShapeFile"
        name == IF shape THEN Slice(field_name, FieldLimit) ELSE field_name
        printed == IF shape /\ name # field_name THEN {"truncated"} ELSE {}
    IN  IF name \notin Range(fc.fields)
        THEN IF created
             THEN [fc |-> [fc EXCEPT !.fields = Append(@, name)], returned |-> TRUE,
                   add_error |-> FALSE, printed |-> printed]
             ELSE [fc |-> fc, returned |-> FALSE, add_error |-> TRUE,
                   printed |-> printed \cup {"error"}]
        ELSE [fc |-> fc, returned |-> FALSE, add_error |-> FALSE, printed |-> printed]

\* lines 52-73: the feature class after the call, the value returned, whether
\* AddField_management raised, and the messages printed; created tells whether
\* AddField_management makes the field when it is called
add_field_if_not_exists(fc, field_name, created) ==
    LET existing_fields == get_existing_fields(fc)
        shape == fc.dataType = "ShapeFile"
        name == IF shape THEN Slice(field_name, FieldLimit) ELSE field_name
        printed == IF shape /\ name # field_name THEN {"truncated"} ELSE {}
    IN  IF Upper(name) \notin Range(existing_fields)
        THEN IF created
             THEN [fc |-> [fc EXCEPT !.fields = Append(@, name)], returned |-> TRUE,
                   add_error |-> FALSE, printed |-> printed]
             ELSE [fc |-> fc, returned |-> FALSE, add_error |-> TRUE,
                   printed |-> printed \cup {"error"}]
        ELSE [fc |-> fc, returned |-> FALSE, add_error |-> FALSE, printed |-> printed]
\* ------------------------------------------------------- classified outputs
\* the features of the shapefile selected by "FID IN (oid_list)", in FID order
RECURSIVE Selected(_, _)
Selected(oid_list, i) ==
    IF i > Len(segs) THEN << >>
    ELSE IF FidOf(i) \in Range(oid_list)
         THEN <<i>> \o Selected(oid_list, i + 1)
         ELSE Selected(oid_list, i + 1)

\* lines 407-419: CopyFeatures numbers the copies from 0 and the new fields are
\* blank; src is the FID the feature has in the input shapefile
CopyFeatures(oid_list) ==
    LET sel == Selected(oid_list, 1)
    IN  [n \in 1..Len(sel) |->
            [FID |-> FidOf(n), src |-> FidOf(sel[n]), StreetSec |-> segs[sel[n]],
             ThreshType |-> "", ThreshVal |-> 0, PCIDiff |-> 0, QC_Street |-> NoName,
             attrs |-> << >>]]

\* pci_diff_dict.get(fid, (None, None))
PciInfo(d, fid) == IF fid \in DOMAIN d THEN d[fid] ELSE <<None, NoName>>

\* a Python value is truthy: a name is neither None nor empty
Truthy(name) == ~IsNone(name) /\ name.val # << >>

\* lines 526-537, 874-885: the delta and the street name of one output row
WithPciInfo(row, d) ==
    LET pci_info == PciInfo(d, row.FID)
    IN  [row EXCEPT !.PCIDiff = IF IsNumber(pci_info[1]) THEN pci_info[1].val ELSE 0,
                    !.QC_Street = IF Truthy(pci_info[2])
                                  THEN Name(Truncate10(pci_info[2].val)) ELSE @]

\* lines 507-547: the threshold fields of a below or above output
UpdateThreshold(rows, threshold_type, threshold_value, d) ==
    [n \in DOMAIN rows |->
        [WithPciInfo(rows[n], d) EXCEPT !.ThreshType = threshold_type,
                                        !.ThreshVal = threshold_value]]

\* lines 867-872: f"Below {lower_thresh}"[:10]; the slice keeps a threshold of at
\* most four characters whole
CombinedType(fid, lower, higher) ==
    IF fid \in Range(lower_oids) THEN "Below " \o ToString(lower)
    ELSE IF fid \in Range(higher_oids) THEN "Above " \o ToString(higher)
    ELSE ""

\* lines 857-895: the threshold fields of the combined output
UpdateCombined(rows, d) ==
    [n \in DOMAIN rows |->
        [WithPciInfo(rows[n], d) EXCEPT
            !.ThreshType = CombinedType(rows[n].FID, lower_thresh, higher_thresh)]]

\* lines 534-545, 882-893: idx reaches StreetSec only when the street name was
\* written; the section key is then stored under the output row's FID
RECURSIVE StoreSections(_, _, _, _)
StoreSections(rows, n, d, mapping) ==
    IF n > Len(rows) THEN mapping
    ELSE StoreSections(rows, n + 1, d,
            IF Truthy(PciInfo(d, rows[n].FID)[2])
            THEN Put(mapping, rows[n].FID, rows[n].StreetSec)
            ELSE mapping)

\* an output made whatever the list holds
HasOidsAlways(oid_list) == TRUE

\* lines 744, 748, 753 and 385: "if lower_oids:", an empty list makes no output
HasOids(oid_list) == oid_list # << >>

OidsOf(p) == IF p = "below" THEN lower_oids ELSE higher_oids
ThreshOf(p) == IF p = "below" THEN lower_thresh ELSE higher_thresh
\* the combined output made right after the below output
AfterWriteSkippingAbove(p) == "combined"
AfterWrite(p) == IF p = "below" THEN "above" ELSE "combined"

\* lines 390, 755: the name of the feature layer a partition is selected with
temp_layer(p) ==
    IF p = "combined" THEN "temp_all_flagged" ELSE "temp_selection_layer"

\* the layers and cursors in names are made or opened: they are held
Hold(held, names) ==
    [h \in DOMAIN held \cup names |-> IF h \in names THEN TRUE ELSE held[h]]

\* Delete_management of a layer, the exit of a cursor's with statement
Release(held, names) ==
    [h \in DOMAIN held |-> IF h \in names THEN FALSE ELSE held[h]]

\* lines 485, 507, 569 (835, 857, 912): the cursors whose with statement the
\* function enters before it ends or raises
CursorsOf(outcome) ==
    CASE outcome \in {"copy_error", "field_error"} -> {}
      [] outcome = "update_error" -> {"SearchCursor", "UpdateCursor"}
      [] outcome = "join_error" -> {"SearchCursor", "UpdateCursor"}
      [] OTHER -> {"SearchCursor", "UpdateCursor"}

\* a with statement closes its cursor when the block ends and when it raises
ExitWith(held, cursors) == Release(held, cursors)

\* a function that leaves its layer in the session
FinallyKeepingLayer(held, p) == held

\* lines 625-628, 971-973: the finally clause deletes the layer when it exists
Finally(held, p) == Release(held, {temp_layer(p)})

\* lines 388-628, 763-973: what is held after the try statement of a partition;
\* the layer is made at line 407 (765) in every outcome that reaches the copy
AfterTry(held, p, outcome) ==
    LET cursors == CursorsOf(outcome)
    IN  Finally(ExitWith(Hold(Hold(held, {temp_layer(p)}), cursors), cursors), p)
\* what the store does during create_output_shapefile_with_table_fields
CreateOutcomes ==
    (IF "output" \in faults
     THEN {"ok", "copy_error", "field_error", "update_error"}
     ELSE {"ok"})
    \cup (IF "join" \in faults THEN {"join_error"} ELSE {})

\* lines 744-750 and 383-628: the below (p = "below") or above output
WriteOutput(p) ==
    /\ pc = p
    /\ attempted' = attempted \cup {p}
    /\ IF ~HasOids(OidsOf(p))
       THEN /\ pc' = AfterWrite(p)
            /\ UNCHANGED <<outputs, street_section_mapping, errors, handles>>
       ELSE \E outcome \in CreateOutcomes :
            /\ handles' = AfterTry(handles, p, outcome)
            /\ CASE outcome = "copy_error" ->
                   \* lines 391-408 raise: the function has no except clause, the
                   \* error reaches line 986
                   /\ pc' = "failed"
                   /\ errors' = errors \cup {"processing"}
                   /\ UNCHANGED <<outputs, street_section_mapping>>
              [] outcome = "field_error" ->
                   \* lines 412-471 (ListFields) raise after the copy
                   /\ pc' = "failed"
                   /\ errors' = errors \cup {"processing"}
                   /\ outputs' = [outputs EXCEPT ![p] = CopyFeatures(OidsOf(p))]
                   /\ UNCHANGED street_section_mapping
              [] outcome = "update_error" ->
                   \* lines 507-547 raise: caught at line 548, the table's
                   \* values are still written
                   /\ pc' = AfterWrite(p)
                   /\ errors' = errors \cup {"threshold fields"}
                   /\ outputs' = [outputs EXCEPT ![p] =
                        JoinTable(WithFields(CopyFeatures(OidsOf(p)), fields), fields,
                                  BuildTableRecords(table, extra, 1, EmptyDict))]
                   /\ UNCHANGED street_section_mapping
              [] outcome = "join_error" ->
                   \* lines 485-496 or 556-619 raise: caught at line 497 or 621,
                   \* the added fields stay blank
                   /\ pc' = AfterWrite(p)
                   /\ errors' = errors \cup {"table fields"}
                   /\ outputs' = [outputs EXCEPT ![p] =
                        UpdateThreshold(WithFields(CopyFeatures(OidsOf(p)), fields),
                                        p, ThreshOf(p), pci_diff_dict)]
                   /\ street_section_mapping' =
                        StoreSections(CopyFeatures(OidsOf(p)), 1, pci_diff_dict,
                                      street_section_mapping)
              [] outcome = "ok" ->
                   /\ pc' = AfterWrite(p)
                   /\ outputs' = [outputs EXCEPT ![p] =
                        JoinTable(
                            UpdateThreshold(WithFields(CopyFeatures(OidsOf(p)), fields),
                                            p, ThreshOf(p), pci_diff_dict),
                            fields, BuildTableRecords(table, extra, 1, EmptyDict))]
                   /\ street_section_mapping' =
                        StoreSections(CopyFeatures(OidsOf(p)), 1, pci_diff_dict,
                                      street_section_mapping)
                   /\ UNCHANGED errors
    /\ UNCHANGED <<inputs, table_dict, si, ri, scan, midpoints, mid_call, reported>>

\* what the store does during lines 753-973
CombinedOutcomes ==
    (IF "output" \in faults
     THEN {"ok", "describe_error", "copy_error", "update_error"}
     ELSE {"ok"})
    \cup (IF "join" \in faults THEN {"join_error"} ELSE {})

\* lines 753-973: the combined output
WriteCombined ==
    /\ pc = "combined"
    /\ attempted' = attempted \cup {"combined"}
    /\ IF ~HasOids(all_flagged_oids)
       THEN /\ pc' = "mid_below"
            /\ UNCHANGED <<outputs, street_section_mapping, errors, handles>>
       ELSE \E outcome \in CombinedOutcomes :
            /\ handles' = IF outcome = "describe_error" THEN handles
                           ELSE AfterTry(handles, "combined", outcome)
            /\ CASE outcome = "describe_error" ->
                   \* lines 756-761 are outside the try of line 763
                   /\ pc' = "failed"
                   /\ errors' = errors \cup {"processing"}
                   /\ UNCHANGED <<outputs, street_section_mapping>>
              [] outcome = "copy_error" ->
                   \* lines 765-821 raise: caught at line 967
                   /\ pc' = "mid_below"
                   /\ errors' = errors \cup {"combined output"}
                   /\ UNCHANGED <<outputs, street_section_mapping>>
              [] outcome = "update_error" ->
                   \* lines 853-960 raise: caught at line 963
                   /\ pc' = "mid_below"
                   /\ errors' = errors \cup {"combined update"}
                   /\ outputs' = [outputs EXCEPT !["combined"] =
                        WithFields(CopyFeatures(all_flagged_oids), fields)]
                   /\ UNCHANGED street_section_mapping
              [] outcome = "join_error" ->
                   \* lines 898-960 raise after the threshold update: caught at
                   \* line 963, the added fields stay blank
                   /\ pc' = "mid_below"
                   /\ errors' = errors \cup {"combined update"}
                   /\ outputs' = [outputs EXCEPT !["combined"] =
                        UpdateCombined(WithFields(CopyFeatures(all_flagged_oids), fields),
                                       pci_diff_dict)]
                   /\ street_section_mapping' =
                        StoreSections(CopyFeatures(all_flagged_oids), 1, pci_diff_dict,
                                      street_section_mapping)
              [] outcome = "ok" ->
                   /\ pc' = "mid_below"
                   /\ outputs' = [outputs EXCEPT !["combined"] =
                        JoinTable(
                            UpdateCombined(
                                WithFields(CopyFeatures(all_flagged_oids), fields),
                                pci_diff_dict),
                            fields, BuildTableRecords(table, extra, 1, EmptyDict))]
                   /\ street_section_mapping' =
                        StoreSections(CopyFeatures(all_flagged_oids), 1, pci_diff_dict,
                                      street_section_mapping)
                   /\ UNCHANGED errors
    /\ UNCHANGED <<inputs, table_dict, si, ri, scan, midpoints, mid_call, reported>>

\* ------------------------------------------------------- midpoint outputs
\* arcpy.Exists of a classified output
Exists(p) == outputs[p] # << >>

MidStep(p) == "mid_" \o p
AfterMid(p) ==
    IF p = "below" THEN "mid_above"
    ELSE IF p = "above" THEN "mid_combined"
    ELSE "done"

\* what a midpoint method gives: points, no point, or an exception
MethodResults ==
    IF "midpoint" \in faults THEN {"points", "zero", "raise"} ELSE {"points"}

\* line 228: the copy of the points succeeds or raises
CopyResults == IF "midpoint" \in faults THEN BOOLEAN ELSE {TRUE}

\* the methods in the other order
MethodsRunManualFirst(first) ==
    IF first = "points" THEN <<"manual">>
    ELSE <<"manual", "feature_to_point">>
\* lines 122-217: the methods in the order of methods_to_try, the second one
\* only when the first one did not succeed
MethodsRun(first) ==
    IF first = "points" THEN <<"feature_to_point">>
    ELSE <<"feature_to_point", "manual">>

\* what the methods that ran gave, in the order they ran
ResultsOf(first, second) ==
    IF first = "points" THEN <<first>> ELSE <<first, second>>

\* a method that did not raise counts as a success, with or without points
SuccessWithoutPoints(first, second) == first # "raise" \/ second # "raise"
\* lines 153-154, 211-212
Success(first, second) == first = "points" \/ second = "points"

\* lines 977-984 and 101-349: the midpoints of one classified output
WriteMidpoints(p) ==
    /\ pc = MidStep(p)
    /\ attempted' = attempted \cup {MidStep(p)}
    /\ pc' = AfterMid(p)
    /\ IF ~Exists(p)
       THEN UNCHANGED <<midpoints, mid_call, errors>>
       ELSE \E first \in MethodResults, second \in MethodResults, copied \in CopyResults :
            /\ mid_call' = [input_fc |-> p, methods |-> MethodsRun(first),
                            results |-> ResultsOf(first, second),
                            success |-> Success(first, second)]
            \* line 220: no output without points; line 228: the copy may raise,
            \* caught at line 346
            /\ midpoints' = [midpoints EXCEPT ![p] = Success(first, second) /\ copied]
            /\ errors' = errors \cup
                 (IF ~Success(first, second) THEN {"no midpoints"}
                  ELSE IF ~copied THEN {"midpoint shapefile"}
                  ELSE {})
    /\ UNCHANGED <<inputs, handles, table_dict, si, ri, scan, street_section_mapping, outputs,
                   reported>>

Next ==
    \/ BuildIndex
    \/ NextSegment
    \/ ProcessRecord
    \/ PrintSummary
    \/ WriteOutput("below")
    \/ WriteOutput("above")
    \/ WriteCombined
    \/ WriteMidpoints("below")
    \/ WriteMidpoints("above")
    \/ WriteMidpoints("combined")

Spec == Init /\ [][Next]_vars

\* a table with a row that is flagged below and a row that is flagged above
StoreTable ==
    << [Street_ID |-> Id("100"), Section_ID |-> Id("1"), Prev_Insp_PCI |-> Num(80),
        Last_Insp_PCI |-> Num(65), Street_Name |-> ShortName],
       [Street_ID |-> Id("100"), Section_ID |-> Id("2"), Prev_Insp_PCI |-> Num(70),
        Last_Insp_PCI |-> Num(80), Street_Name |-> LongName] >>

\* ------------------------------------------- a run on keys with blank padding
\* identifiers as the table may store them, with a leading or a trailing blank
PaddedStreetIds == {Id("100"), Id(" 100"), Id("100 ")}
PaddedSectionIds == {Id("1"), Id("1 ")}

\* StreetSec values as the shapefile may store them
PaddedSegKeys == {"100 - 1", " 100 - 1", "100 - 1 "}

KeyRows ==
    { [Street_ID |-> s, Section_ID |-> c, Prev_Insp_PCI |-> Num(80),
       Last_Insp_PCI |-> Num(65), Street_Name |-> ShortName] :
        s \in PaddedStreetIds, c \in PaddedSectionIds }

InitKeys ==
    /\ table \in SeqsUpTo(KeyRows, MaxRows)
    /\ segs \in SeqsUpTo(PaddedSegKeys, MaxSegs)
    /\ lower_input = DecimalText(-10) /\ higher_input = DecimalText(10)
    /\ lower_thresh = -10
    /\ higher_thresh = 10
    /\ faults = {}
    /\ pc = "index"
    /\ add_field = NoAddField
    /\ NoFields
    /\ Start

SpecKeys == InitKeys /\ [][Next]_vars
\* ------------------------------------------ a run on a table with more fields
\* the table with up to MaxFields additional fields, any cell of its first row
\* NULL; the writing of the table's values may fail
InitFields ==
    /\ table = StoreTable
    /\ segs = <<"100 - 1", "100 - 2">>
    /\ fields \in FieldLists(MaxFields)
    /\ \E nulls \in SUBSET ({1} \X Range(Names(fields))) :
          extra = CellsOf(table, fields, nulls)
    /\ lower_input = DecimalText(-10) /\ higher_input = DecimalText(10)
    /\ lower_thresh = -10
    /\ higher_thresh = 10
    /\ faults = {"join"}
    /\ pc = "index"
    /\ add_field = NoAddField
    /\ Start

SpecFields == InitFields /\ [][Next]_vars

\* ------------------------------------------------ a run from the typed lines
\* the lines an operator may type at one of the prompts of lines 29-30
InputTexts ==
    { DecimalText(-10), DecimalText(10), DecimalText(5), <<"+", "3">>,
      <<"2", ".", "5">>, <<"-", "0", ".", "5">>, <<"a", "b", "c">>, << >> }

\* lines 32-38: both lines are converted inside one try; a ValueError of either
\* one sets both defaults
ParseThresholds ==
    /\ pc = "input"
    /\ LET lower == ParseInt(lower_input)
           higher == ParseInt(higher_input)
       IN  IF lower.ok /\ higher.ok
           THEN lower_thresh' = lower.val /\ higher_thresh' = higher.val
           ELSE lower_thresh' = DefaultLower /\ higher_thresh' = DefaultHigher
    /\ pc' = "index"
    /\ UNCHANGED <<table, segs, fields, extra, lower_input, higher_input, faults,
                   add_field, handles, table_dict, si, ri,
                   scan, street_section_mapping, outputs, midpoints, mid_call,
                   attempted, reported, errors>>

\* the two lines are typed, line 31 is reached; the thresholds are not yet
\* numbers (0 stands for the unconverted value)
InitInput ==
    /\ table = StoreTable
    /\ segs \in SeqsUpTo(SegKeys, MaxSegs)
    /\ lower_input \in InputTexts
    /\ higher_input \in InputTexts
    /\ lower_thresh = 0
    /\ higher_thresh = 0
    /\ faults = {}
    /\ pc = "input"
    /\ add_field = NoAddField
    /\ NoFields
    /\ Start

NextInput == ParseThresholds \/ Next

SpecInput == InitInput /\ [][NextInput]_vars

\* -------------------------------------------------- a run on a failing store
\* the table, a shapefile of up to two of its sections, and a store whose reads,
\* output operations and midpoint methods may each fail
InitStore ==
    /\ table = StoreTable
    /\ segs \in SeqsUpTo(SegKeys, MaxSegs)
    /\ lower_input = DecimalText(-10) /\ higher_input = DecimalText(10)
    /\ lower_thresh = -10
    /\ higher_thresh = 10
    /\ faults = {"read", "output", "midpoint"}
    /\ pc = "index"
    /\ add_field = NoAddField
    /\ NoFields
    /\ Start

SpecStore == InitStore /\ [][Next]_vars

\* ------------------------------------------- calls of add_field_if_not_exists
\* the names a caller may ask for: names the outputs are given (lines 416-419),
\* one of them in lower case, and names of the table's fields
FieldNamesAsked ==
    { OutputBaseFields[4].name, OutputBaseFields[6].name,
      <<"t", "h", "r", "e", "s", "h", "t", "y", "p", "e">>,
      AllFields[1].name, AllFields[3].name }

\* one call on the feature class the previous call left
AddField ==
    /\ \E field_name \in FieldNamesAsked, created \in BOOLEAN :
          LET call == add_field_if_not_exists(add_field.fc, field_name, created)
          IN  add_field' = [fc |-> call.fc, field_name |-> field_name,
                            before |-> add_field.fc.fields,
                            returned |-> call.returned,
                            add_error |-> call.add_error,
                            printed |-> call.printed]
    /\ UNCHANGED <<table, segs, fields, extra, lower_input, higher_input,
                   lower_thresh, higher_thresh, faults, pc, table_dict, si, ri,
                   scan, street_section_mapping, outputs, midpoints, mid_call,
                   attempted, reported, errors, handles>>

\* a shapefile as CopyFeatures leaves it (line 408), before any field is added
InitAddField ==
    /\ add_field = [NoAddField EXCEPT
                       !.fc = [fields |-> SubSeq(Names(OutputBaseFields), 1, 3),
                               dataType |-> "ShapeFile"]]
    /\ table = StoreTable
    /\ segs = << >>
    /\ lower_input = DecimalText(-10) /\ higher_input = DecimalText(10)
    /\ lower_thresh = -10
    /\ higher_thresh = 10
    /\ faults = {}
    /\ pc = "below"
    /\ NoFields
    /\ Start

NextAddField == AddField

SpecAddField == InitAddField /\ [][NextAddField]_vars
\* --------------------------------------- a run on a table with repeated keys
\* the rows of one section, with every kind of PCI values
SectionRows == { r \in TableRows : r.Section_ID = Id("1") }

\* up to MaxRows inspections of one section, each with its own notes, and the
\* segment of that section as the only feature of the shapefile
InitJoin ==
    /\ table \in SeqsUpTo(SectionRows, MaxRows)
    /\ segs = <<"100 - 1">>
    /\ fields = <<AllFields[4]>>
    /\ extra = CellsOf(table, fields, {})
    /\ lower_input = DecimalText(-10) /\ higher_input = DecimalText(10)
    /\ lower_thresh = -10
    /\ higher_thresh = 10
    /\ faults = {}
    /\ pc = "index"
    /\ add_field = NoAddField
    /\ Start

SpecJoin == InitJoin /\ [][Next]_vars
\* -------------------------------- a run on the inspections of one section
\* up to MaxRows inspections of section 1, of any kind, and a shapefile with
\* segments of that section and of a section that was never inspected; the
\* store may fail while a classified output is made
InitSection ==
    /\ table \in SeqsUpTo(SectionRows, MaxRows)
    /\ segs \in SeqsUpTo(SegKeys, MaxSegs)
    /\ \E t \in ThresholdPairs :
          /\ lower_input = DecimalText(t[1]) /\ higher_input = DecimalText(t[2])
          /\ lower_thresh = t[1] /\ higher_thresh = t[2]
    /\ faults = {"output"}
    /\ pc = "index"
    /\ add_field = NoAddField
    /\ NoFields
    /\ Start

SpecSection == InitSection /\ [][Next]_vars
\* ------------------------------------------------------------- properties
\* the keys of the table's rows
TableKeys == { MakeKey(r.Street_ID, r.Section_ID) : r \in Range(table) }

\* the result appended by the step, when the step appends one
NewResult == all_results'[Len(all_results')]

Classified(r) == r.Flag # "MISSING"
Delta(r) == r.PCI_Difference.val
Ended == pc \in {"done", "failed"}
AllSteps == {"below", "above", "combined", "mid_below", "mid_above", "mid_combined"}

\* C1: a matched record is flagged as missing data exactly when its previous or
\* its last PCI is NULL, and the step that flags it so adds nothing to the
\* below, above and combined lists.
C1_MissingIffNull ==
    [][Len(all_results') > Len(all_results) =>
          /\ NewResult.Flag = "MISSING" <=>
                (IsNone(NewResult.Prev_Insp_PCI) \/ IsNone(NewResult.Last_Insp_PCI))
          /\ NewResult.Flag = "MISSING" =>
                UNCHANGED <<lower_oids, higher_oids, all_flagged_oids>>]_vars

\* a record with a NULL PCI was flagged as missing data in a run that also
\* flagged a segment
C1_Witness ==
    /\ \E i \in DOMAIN all_results :
          /\ all_results[i].Flag = "MISSING"
          /\ IsNone(all_results[i].Prev_Insp_PCI) \/ IsNone(all_results[i].Last_Insp_PCI)
    /\ all_flagged_oids # << >>

\* C2: a record with both PCI values gets one tag: below iff delta <= lower,
\* otherwise above iff delta >= higher, otherwise unflagged; a delta that passes
\* both tests is below. The tag decides the lists the segment is added to.
C2_OneTag ==
    \A i \in DOMAIN all_results :
        LET r == all_results[i]
        IN  Classified(r) =>
              /\ r.Flag \in {"BELOW", "ABOVE", "OK"}
              /\ r.Flag = "BELOW" <=> Delta(r) <= lower_thresh
              /\ Delta(r) > lower_thresh =>
                    (r.Flag = "ABOVE" <=> Delta(r) >= higher_thresh)
              /\ r.Flag = "BELOW" => r.Shapefile_OID \in Range(lower_oids)
              /\ r.Flag = "ABOVE" => r.Shapefile_OID \in Range(higher_oids)
              /\ r.Flag = "OK" => Delta(r) > lower_thresh /\ Delta(r) < higher_thresh

\* a delta equal to both thresholds was tagged below and another record above
C2_Witness ==
    /\ lower_thresh = higher_thresh
    /\ \E i \in DOMAIN all_results :
          /\ Classified(all_results[i])
          /\ Delta(all_results[i]) = lower_thresh
          /\ all_results[i].Flag = "BELOW"
    /\ \E i \in DOMAIN all_results : all_results[i].Flag = "ABOVE"

\* C3 as stated: whatever the order of the thresholds, a record with both PCI
\* values is tagged above exactly when delta >= higher.
C3_AboveIffHigherTest ==
    \A i \in DOMAIN all_results :
        Classified(all_results[i]) =>
            (all_results[i].Flag = "ABOVE" <=> Delta(all_results[i]) >= higher_thresh)

\* C3 amended: a record with both PCI values is tagged above exactly when
\* delta >= higher and the lower test, made first, has not taken it.
C3_AboveIffNotBelow ==
    \A i \in DOMAIN all_results :
        Classified(all_results[i]) =>
            (all_results[i].Flag = "ABOVE" <=>
                (Delta(all_results[i]) >= higher_thresh
                    /\ ~(Delta(all_results[i]) <= lower_thresh)))

\* with lower > higher, one record was tagged above and another one that passes
\* the higher test was tagged below
C3_Witness ==
    /\ lower_thresh > higher_thresh
    /\ \E i \in DOMAIN all_results : all_results[i].Flag = "ABOVE"
    /\ \E i \in DOMAIN all_results :
          /\ all_results[i].Flag = "BELOW"
          /\ Delta(all_results[i]) >= higher_thresh

\* C4: of the records of a segment's key only the first one is compared: no
\* FID enters the combined list twice, a FID is in the below or above list only
\* by the first record's tag, and the delta kept for a FID is the first record's.
C4_OnlyFirstRecord ==
    /\ \A i, j \in DOMAIN all_flagged_oids :
          all_flagged_oids[i] = all_flagged_oids[j] => i = j
    /\ \A fid \in DOMAIN pci_diff_dict :
          LET first == RecordsOf(table_dict, segs[fid + 1])[1]
          IN  /\ IsNumber(first.last_pci) /\ IsNumber(first.prev_pci)
              /\ pci_diff_dict[fid][1] =
                    Num(PciDiff(first.last_pci.val, first.prev_pci.val))
              /\ fid \in Range(lower_oids) =>
                    first.last_pci.val - first.prev_pci.val <= lower_thresh
              /\ fid \in Range(higher_oids) =>
                    first.last_pci.val - first.prev_pci.val >= higher_thresh

\* C5 as stated: delta is prevPCI - lastPCI; with thresholds -10 and 10 the
\* record 80, 65 has delta 15 and is above, the record 70, 68 has delta 2 and is
\* unflagged.
C5_PrevMinusLast ==
    \A i \in DOMAIN all_results :
        LET r == all_results[i]
        IN  Classified(r) =>
              /\ Delta(r) = r.Prev_Insp_PCI.val - r.Last_Insp_PCI.val
              /\ (lower_thresh = -10 /\ higher_thresh = 10
                    /\ r.Prev_Insp_PCI = Num(80) /\ r.Last_Insp_PCI = Num(65)) =>
                        (Delta(r) = 15 /\ r.Flag = "ABOVE")
              /\ (lower_thresh = -10 /\ higher_thresh = 10
                    /\ r.Prev_Insp_PCI = Num(70) /\ r.Last_Insp_PCI = Num(68)) =>
                        (Delta(r) = 2 /\ r.Flag = "OK")

\* C5 amended: delta is lastPCI - prevPCI; with thresholds -10 and 10 the record
\* 80, 65 has delta -15 and is below, the record 70, 68 has delta -2 and is
\* unflagged.
C5_LastMinusPrev ==
    \A i \in DOMAIN all_results :
        LET r == all_results[i]
        IN  Classified(r) =>
              /\ Delta(r) = r.Last_Insp_PCI.val - r.Prev_Insp_PCI.val
              /\ (lower_thresh = -10 /\ higher_thresh = 10
                    /\ r.Prev_Insp_PCI = Num(80) /\ r.Last_Insp_PCI = Num(65)) =>
                        (Delta(r) = -15 /\ r.Flag = "BELOW")
              /\ (lower_thresh = -10 /\ higher_thresh = 10
                    /\ r.Prev_Insp_PCI = Num(70) /\ r.Last_Insp_PCI = Num(68)) =>
                        (Delta(r) = -2 /\ r.Flag = "OK")

\* both records of the scenario were compared under the thresholds -10 and 10
C5_Witness ==
    /\ lower_thresh = -10 /\ higher_thresh = 10
    /\ \E i \in DOMAIN all_results :
          /\ all_results[i].Prev_Insp_PCI = Num(80)
          /\ all_results[i].Last_Insp_PCI = Num(65)
          /\ all_results[i].Flag = "BELOW"
    /\ \E i \in DOMAIN all_results :
          /\ all_results[i].Prev_Insp_PCI = Num(70)
          /\ all_results[i].Last_Insp_PCI = Num(68)
          /\ all_results[i].Flag = "OK"

\* C6: once the writing of the outputs has begun, a failure of one partition is
\* caught and the run still reaches every other partition: a run that has ended
\* has reached all six output steps.
C6_FailureIsolated == (Ended /\ attempted # {}) => attempted = AllSteps

\* the matched records of the segments that hold a non-numeric PCI value
NonNumeric(rec) ==
    /\ BothPresent(rec.last_pci, rec.prev_pci)
    /\ ~IsNumber(rec.last_pci) \/ ~IsNumber(rec.prev_pci)

\* the result of the record for the i-th segment carries the flag
HasResult(i, rec, flag) ==
    \E k \in DOMAIN all_results :
        /\ all_results[k].Shapefile_OID = FidOf(i)
        /\ all_results[k].Table_OID = rec.tbl_oid
        /\ all_results[k].Flag = flag

\* C7: a non-numeric PCI value is caught for its record: when the run has
\* ended, every matched record with such a value is flagged as missing data and
\* the run has gone on to the outputs.
C7_NonNumericIsMissing ==
    Ended =>
        \A i \in DOMAIN segs :
            \A j \in DOMAIN RecordsOf(table_dict, segs[i]) :
                LET rec == RecordsOf(table_dict, segs[i])[j]
                IN  NonNumeric(rec) =>
                       HasResult(i, rec, "MISSING") /\ "below" \in attempted

\* C8: a NULL street name aborts nothing: when the run has ended, every matched
\* record with two numbers and no street name is tagged by its delta and the run
\* has gone on to the outputs.
C8_NullNameClassified ==
    Ended =>
        \A i \in DOMAIN segs :
            \A j \in DOMAIN RecordsOf(table_dict, segs[i]) :
                LET rec == RecordsOf(table_dict, segs[i])[j]
                IN  (IsNumber(rec.last_pci) /\ IsNumber(rec.prev_pci)
                        /\ IsNone(rec.street_name)) =>
                       /\ HasResult(i, rec,
                             Classify(rec.last_pci.val - rec.prev_pci.val,
                                      lower_thresh, higher_thresh))
                       /\ "below" \in attempted

\* the segments whose key no row of the table has
Unmatched == { i \in DOMAIN segs : segs[i] \notin TableKeys }
Sources(p) == { outputs[p][n].src : n \in DOMAIN outputs[p] }

\* C9: a segment whose key is not in the index is in none of the three lists
\* and in none of the three outputs, and the run does not fail on it.
C9_UnmatchedExcluded ==
    \A i \in Unmatched :
        /\ FidOf(i) \notin Range(lower_oids) \cup Range(higher_oids)
                               \cup Range(all_flagged_oids)
        /\ \A p \in Partitions : FidOf(i) \notin Sources(p)
        /\ FidOf(i) \notin DOMAIN pci_diff_dict
        /\ ~(pc = "failed" /\ si = i)

\* the three outputs were written from a shapefile with an unmatched segment
C9_Witness ==
    /\ Unmatched # {}
    /\ pc = "done"
    /\ \A p \in Partitions : outputs[p] # << >>

\* C10: when no segment's key is in the table the run raises nothing, makes no
\* output and reports totals of zero.
C10_NoMatchNoOutput ==
    (Unmatched = DOMAIN segs) =>
        /\ pc # "failed"
        /\ errors = {}
        /\ \A p \in Partitions : outputs[p] = << >> /\ ~midpoints[p]
        /\ lower_oids = << >> /\ higher_oids = << >> /\ all_flagged_oids = << >>
        /\ reported \in {<< >>, <<0, 0, 0>>}
        /\ pc \notin {"index", "scan"} => reported = <<0, 0, 0>>

\* a run over two unmatched segments and a table with rows has completed
C10_Witness ==
    /\ Unmatched = DOMAIN segs
    /\ Len(segs) >= 2
    /\ table # << >>
    /\ pc = "done"

\* the output p holds the threshold fields its update has written
Updated(p) ==
    /\ outputs[p] # << >>
    /\ IF p = "combined" THEN "combined update" \notin errors
       ELSE \A n \in DOMAIN outputs[p] : outputs[p][n].ThreshType = p

\* C11: every record of the below, above and combined outputs stores the delta
\* and the tag computed for the segment it was copied from, whatever FID the
\* output gives to the copy.
C11_DeltaOfSource ==
    \A p \in Partitions :
        Updated(p) =>
            \A n \in DOMAIN outputs[p] :
                LET row == outputs[p][n]
                IN  /\ row.src \in DOMAIN pci_diff_dict
                    /\ row.PCIDiff = pci_diff_dict[row.src][1].val
                    /\ p = "combined" =>
                          row.ThreshType =
                             CombinedType(row.src, lower_thresh, higher_thresh)

\* the positions in the table of the rows whose key is k
RowsWithKey(k) ==
    { i \in DOMAIN table : MakeKey(table[i].Street_ID, table[i].Section_ID) = k }

\* C12: the index is built in one pass that drops no row: once built from a
\* table that could be read, its keys are the keys of the table and under each
\* key it holds the rows of that key, each one once, duplicates included, in
\* the order of the table.
C12_IndexKeepsEveryRow ==
    (pc \notin {"input", "index"} /\ "read table" \notin errors) =>
        /\ \A i \in DOMAIN table :
              LET k == MakeKey(table[i].Street_ID, table[i].Section_ID)
              IN  /\ k \in DOMAIN table_dict
                  /\ \E a \in DOMAIN table_dict[k] :
                        /\ table_dict[k][a].tbl_oid = i
                        /\ table_dict[k][a].last_pci = table[i].Last_Insp_PCI
                        /\ table_dict[k][a].prev_pci = table[i].Prev_Insp_PCI
                        /\ table_dict[k][a].street_name = table[i].Street_Name
        /\ \A k \in DOMAIN table_dict :
              LET recs == table_dict[k]
              IN  /\ recs # << >>
                  /\ \A a \in DOMAIN recs :
                        /\ recs[a].tbl_oid \in DOMAIN table
                        /\ MakeKey(table[recs[a].tbl_oid].Street_ID,
                                   table[recs[a].tbl_oid].Section_ID) = k
                        /\ a > 1 => recs[a - 1].tbl_oid < recs[a].tbl_oid

\* the index was built from a table with two rows of one key
C12_Witness ==
    /\ pc = "scan"
    /\ \E k \in DOMAIN table_dict :
          /\ Len(table_dict[k]) = 2
          /\ table_dict[k][1].tbl_oid = 1
          /\ table_dict[k][2].tbl_oid = 2

\* the order of the output steps
StepOrder == <<"below", "above", "combined", "mid_below", "mid_above", "mid_combined">>

\* C17: the steps of a run happen in one order: the table is scanned once to
\* build the index, then the segments are scanned once, then the below, the
\* above and the combined output are written, then the midpoints of the below,
\* the above and the combined output are derived; no midpoint output is derived
\* before its classified output was written.
C17_FixedOrder ==
    /\ [](/\ pc = "index" => (table_dict = EmptyDict /\ si = 0 /\ attempted = {})
          /\ pc = "scan" => attempted = {}
          /\ attempted # {} => (si > Len(segs) /\ reported # << >>)
          /\ \A n \in 2..Len(StepOrder) :
                StepOrder[n] \in attempted => StepOrder[n - 1] \in attempted
          /\ \A p \in Partitions :
                midpoints[p] =>
                    (MidStep(p) \in attempted /\ p \in attempted /\ Exists(p)))
    /\ [][/\ table_dict' # table_dict => pc = "index"
          /\ si' # si => (pc \in {"index", "scan"} /\ si' = si + 1)
          /\ attempted' # attempted =>
                \E s \in AllSteps \ attempted : attempted' = attempted \cup {s}
          /\ \A p \in Partitions :
                /\ outputs'[p] # outputs[p] => (pc = p /\ outputs[p] = << >>)
                /\ midpoints'[p] # midpoints[p] =>
                      (pc = MidStep(p) /\ ~midpoints[p])]_vars

\* a run has written the three outputs and derived the three midpoint outputs
C17_Witness ==
    /\ pc = "done"
    /\ attempted = AllSteps
    /\ \A p \in Partitions : Exists(p) /\ midpoints[p]

ReadFailed == "read table" \in errors \/ "read shapefile" \in errors

\* C18: when the inspection table or the segment layer cannot be read, the
\* error is reported and the run ends without attempting any output: none of
\* the six output steps is reached and no classified or midpoint output exists.
C18_ReadErrorNoOutput ==
    ReadFailed =>
        /\ pc = "failed"
        /\ "processing" \in errors
        /\ attempted = {}
        /\ \A p \in Partitions : outputs[p] = << >> /\ ~midpoints[p]

\* the shapefile could not be read after a segment had been flagged
C18_Witness ==
    /\ "read shapefile" \in errors
    /\ all_flagged_oids # << >>
    /\ pc = "failed"

\* the latest call of the midpoint deriver has tried a method
Called == mid_call.input_fc # ""

C20_MidpointFallback ==
    /\ [](Called =>
            /\ mid_call.results[1] # "points" =>
                  Range(mid_call.methods) = {"feature_to_point", "manual"}
            /\ (\A n \in DOMAIN mid_call.results : mid_call.results[n] # "points") =>
                  (~midpoints[mid_call.input_fc] /\ "no midpoints" \in errors)
            /\ pc \in {"mid_above", "mid_combined", "done"}
            /\ pc = "done" => attempted = AllSteps)
    /\ [][\A p \in Partitions : pc = MidStep(p) => pc' = AfterMid(p)]_vars

\* both methods failed for the below output and the midpoints of the above
\* output were then made
C20_Witness ==
    /\ "no midpoints" \in errors
    /\ Exists("below") /\ ~midpoints["below"]
    /\ midpoints["above"]
    /\ pc = "done"

\* the position of the decimal point of a typed line, 0 when it has none
DotOf(chars) ==
    IF \E i \in DOMAIN chars : chars[i] = "."
    THEN CHOOSE i \in DOMAIN chars : chars[i] = "." ELSE 0

\* the typed line writes a number: a signed integer or a signed real
IsNumericText(chars) ==
    LET body == Unsigned(chars)
        dot == DotOf(body)
    IN  IF dot = 0 THEN AllDigits(body)
        ELSE AllDigits(SubSeq(body, 1, dot - 1))
                /\ AllDigits(SubSeq(body, dot + 1, Len(body)))

\* ten times the number written by a numeric line with at most one decimal
TenTimes(chars) ==
    LET body == Unsigned(chars)
        dot == DotOf(body)
        abs == IF dot = 0 THEN 10 * DigitsValue(body)
               ELSE 10 * DigitsValue(SubSeq(body, 1, dot - 1))
                       + DigitValue(body[dot + 1])
    IN  IF chars[1] = "-" THEN 0 - abs ELSE abs

\* C16: the thresholds of the run are the operator's two values whenever both
\* typed lines are numeric (a signed integer or a real), and the defaults -10
\* and 10 when a line is not numeric; in both cases the run goes on.
C16_NumericInputsKept ==
    /\ pc = "input" => ENABLED ParseThresholds
    /\ pc # "input" =>
          IF IsNumericText(lower_input) /\ IsNumericText(higher_input)
          THEN /\ 10 * lower_thresh = TenTimes(lower_input)
               /\ 10 * higher_thresh = TenTimes(higher_input)
          ELSE lower_thresh = DefaultLower /\ higher_thresh = DefaultHigher

\* the strings without blank padding that the identifiers and keys stand for
CleanTexts == {"100", "1", "2", "100 - 1", "100 - 2"}
Pads == {"", " "}
Padded(t) == { a \o t \o b : a, b \in Pads }

\* trim(s): s without its leading and trailing blanks
Trim(s) == CHOOSE t \in CleanTexts : s \in Padded(t)

\* "{trim(streetId)} - {trim(sectionId)}"
CanonicalKey(r) == Trim(Str(r.Street_ID)) \o " - " \o Trim(Str(r.Section_ID))

\* C13: the key made from the table's two fields and the key read from the
\* segment's combined field are both the canonical key of trimmed identifiers,
\* also when a value has leading or trailing blanks, so that a segment is
\* joined to every row of its section.
C13_PaddedKeysJoin ==
    (pc \notin {"input", "index"} /\ "read table" \notin errors) =>
        /\ \A i \in DOMAIN table :
              MakeKey(table[i].Street_ID, table[i].Section_ID) = CanonicalKey(table[i])
        /\ \A i \in DOMAIN table, j \in DOMAIN segs :
              Trim(segs[j]) = CanonicalKey(table[i]) =>
                 \E n \in DOMAIN RecordsOf(table_dict, segs[j]) :
                    RecordsOf(table_dict, segs[j])[n].tbl_oid = i

\* the names of the table's additional fields and their mapping
FieldNames == Names(fields)
field_mapping == create_field_mapping(FieldNames)

\* the fields added to the rows of the outputs
OutputAttrs ==
    UNION { { outputs[p][n].attrs : n \in DOMAIN outputs[p] } : p \in Partitions }

\* C14: the field-name mapping with the limit of 10 characters gives a name of
\* at most 10 characters unchanged and the first 10 characters of a longer
\* name; it is idempotent; the fields added to an output carry mapped names.
C14_MappingTruncates ==
    /\ DOMAIN field_mapping = Range(FieldNames)
    /\ \A field \in Range(FieldNames) :
          /\ Len(field) <= 10 => field_mapping[field] = field
          /\ Len(field) > 10 =>
                /\ Len(field_mapping[field]) = 10
                /\ \A i \in 1..10 : field_mapping[field][i] = field[i]
          /\ create_field_mapping(<<field_mapping[field]>>)[field_mapping[field]]
                = field_mapping[field]
    /\ \A attrs \in OutputAttrs :
          \A x \in DOMAIN attrs :
             \E field \in Range(FieldNames) : attrs[x].name = field_mapping[field]

\* an output has a field whose name is the first 10 characters of a longer name
\* of the table and a field whose name is a short name of the table, unchanged
C14_Witness ==
    \E attrs \in OutputAttrs :
        /\ \E x \in DOMAIN attrs, field \in Range(FieldNames) :
              Len(field) > 10 /\ attrs[x].name = SubSeq(field, 1, 10)
        /\ \E x \in DOMAIN attrs, field \in Range(FieldNames) :
              Len(field) < 10 /\ attrs[x].name = field

\* the positions of the table's fields whose truncated name is short
FieldsOf(short) == { i \in DOMAIN fields : field_mapping[fields[i].name] = short }
FirstOf(short) == CHOOSE i \in FieldsOf(short) : \A j \in FieldsOf(short) : i <= j

\* the cells that table_records holds for a section key
RecordOfKey(k) ==
    extra[CHOOSE i \in RowsWithKey(k) : \A j \in RowsWithKey(k) : j <= i]

\* the writing of the table's values has not failed in the run
Joined == "table fields" \notin errors /\ "combined update" \notin errors

C21_NullDefaults ==
    Joined =>
        \A p \in Partitions :
            \A n \in DOMAIN outputs[p] :
                LET row == outputs[p][n]
                IN  \A x \in DOMAIN row.attrs :
                        LET field == row.attrs[x]
                            orig == fields[FirstOf(field.name)]
                            cell == RecordOfKey(row.StreetSec)[orig.name]
                        IN  /\ ~IsNone(cell) => field.value = cell
                            /\ (IsNone(cell) /\ field.type = "Integer") =>
                                  field.value = Num(0)
                            /\ (IsNone(cell) /\ field.type = "String") =>
                                  field.value = Name(<< >>)
                            /\ (IsNone(cell) /\ field.type = "Date") =>
                                  field.value = None

\* a run without failure has written a row with 0 under a number field whose
\* cell is NULL and a text under a text field whose cell is not NULL, and a row
\* with the empty string under a text field whose cell is NULL
C21_Witness ==
    /\ pc = "done"
    /\ errors = {}
    /\ \E p \in Partitions :
          \E n \in DOMAIN outputs[p] :
              LET row == outputs[p][n]
                  cells == RecordOfKey(row.StreetSec)
              IN  /\ Len(row.attrs) = 2
                  /\ row.attrs[1].type = "Integer"
                  /\ IsNone(cells[fields[1].name])
                  /\ row.attrs[1].value = Num(0)
                  /\ row.attrs[2].type = "String"
                  /\ ~IsNone(cells[fields[2].name])
                  /\ row.attrs[2].value = cells[fields[2].name]

\* the latest call of add_field_if_not_exists, when there is one
AddCalled == add_field.field_name # << >>
UpperBefore == Range([i \in DOMAIN add_field.before |-> Upper(add_field.before[i])])
ShortAsked == Slice(add_field.field_name, FieldLimit)
AddNoOp == ~add_field.returned /\ add_field.fc.fields = add_field.before
AddMade ==
    /\ add_field.returned
    /\ add_field.fc.fields = Append(add_field.before, ShortAsked)
AddFailed == AddNoOp /\ "error" \in add_field.printed

C23_NothingHeld == \A h \in DOMAIN handles : ~handles[h]

\* the below output was written with its cursors, the copy of the combined
\* output raised after its layer was made, and neither layer is held
C23_Witness ==
    /\ outputs["below"] # << >>
    /\ "combined output" \in errors
    /\ {"temp_selection_layer", "temp_all_flagged", "SearchCursor", "UpdateCursor"}
          \subseteq DOMAIN handles
    /\ ~handles["temp_selection_layer"]
    /\ ~handles["temp_all_flagged"]
    /\ ~handles["UpdateCursor"]

\* C24: the index and the maps of the run (key to records, feature id to
\* delta, feature id to section key) are built by the two scans and are not
\* modified by any later step: the steps that write the below, the above and
\* the combined output and the midpoints leave all of them unchanged.
C24_MapsReadOnly ==
    [][pc \notin {"input", "index", "scan"} =>
          UNCHANGED <<table_dict, pci_diff_dict, street_section_mapping>>]_vars

\* no feature id twice in a list
NoRepeat(oids) == \A i, j \in DOMAIN oids : oids[i] = oids[j] => i = j

\* C25: after the segments are scanned, whatever the table holds, rows of equal
\* keys included, the below list and the above list have no feature id in
\* common and neither holds a feature id twice, so no segment is in both the
\* below and the above output.
C25_DisjointSets ==
    pc \notin {"input", "index", "scan"} =>
        /\ Range(lower_oids) \cap Range(higher_oids) = {}
        /\ NoRepeat(lower_oids)
        /\ NoRepeat(higher_oids)
        /\ Sources("below") \cap Sources("above") = {}

\* the tag the combined output gives to a segment of the below list and to a
\* segment of the above list
BelowTag == "Below " \o ToString(lower_thresh)
AboveTag == "Above " \o ToString(higher_thresh)

\* C26: after the segments are scanned the combined list holds the feature ids
\* of the below list and of the above list and no other, and every record of
\* the combined output is tagged Below when its segment is in the below list
\* and Above when its segment is in the above list.
C26_CombinedIsUnion ==
    pc \notin {"input", "index", "scan"} =>
        /\ Range(all_flagged_oids) = Range(lower_oids) \cup Range(higher_oids)
        /\ Updated("combined") =>
              \A n \in DOMAIN outputs["combined"] :
                  LET row == outputs["combined"][n]
                  IN  /\ row.src \in Range(lower_oids) => row.ThreshType = BelowTag
                      /\ row.src \in Range(higher_oids) \ Range(lower_oids) =>
                            row.ThreshType = AboveTag

\* the i-th row of the table gave the delta and the attributes of the record, and
\* its delta is on the side of the threshold that the output p stands for
FromRow(p, row, i) ==
    /\ BothNumbers(table[i].Last_Insp_PCI, table[i].Prev_Insp_PCI)
    /\ row.PCIDiff = table[i].Last_Insp_PCI.val - table[i].Prev_Insp_PCI.val
    /\ p = "below" => row.PCIDiff <= lower_thresh
    /\ p = "above" => row.PCIDiff >= higher_thresh
    /\ \A x \in DOMAIN row.attrs :
          row.attrs[x].value = extra[i][fields[FirstOf(row.attrs[x].name)].name]

\* C27: for a segment whose key has several inspection records, the values
\* joined from the table into its output record are those of the inspection
\* record whose PCI values gave the delta and the classification stored on
\* that output record.
C27_SameRecord ==
    \A p \in Partitions :
        (Updated(p) /\ Joined) =>
            \A n \in DOMAIN outputs[p] :
                LET row == outputs[p][n]
                IN  Cardinality(RowsWithKey(row.StreetSec)) > 1 =>
                        \E i \in RowsWithKey(row.StreetSec) : FromRow(p, row, i)
====
